---------------------------- MODULE Spec2Model ----------------------------
(***************************************************************************)
(* Outage-report service (IsKoroneDown): POST /report, GET /status and the *)
(* admin surface of src/unnamed/part_000 (the version of src/server.js     *)
(* with the access gate, sessions, blacklist and settings).                *)
(*                                                                         *)
(* Every request is an instance of an async handler chain.  A step of the  *)
(* model is one storage statement executed by the database together with   *)
(* the synchronous code that runs up to the next statement, so requests    *)
(* interleave exactly at the `await db.*` points of the source.            *)
(* Time is the value of Date.now(), counted in ms from the first instant   *)
(* of the behaviour.                                                       *)
(***************************************************************************)
EXTENDS Integers, Sequences, FiniteSets, TLC

-----------------------------------------------------------------------------
(* Bounds of the model *)

\* requests in flight at once
MaxProcs == 2
\* requests received in one behaviour
MaxRequests == 3
\* rows of the ledger where its size does not matter
SmallLedger == 2

-----------------------------------------------------------------------------
(* Program constants *)

\* 24 * 60 * 60 * 1000 ms, the rate-limit and status window
Window == 24 * 60 * 60 * 1000
\* count >= 30 gives "probably down"
Threshold == 30

StatusUp == "Korone is up"
StatusDown == "Korone is probably down"
RateLimitMessage == "You can only report once every 24 hours."
DefaultReason == "No reason provided"

\* process.env.ADMIN_USERNAME / ADMIN_PASSWORD as provisioned by the operator
ADMIN_USERNAME == "admin"
ADMIN_PASSWORD == "secret"

\* extensions of /\.(png|jpg|jpeg|gif|svg|css|js|ttf|woff|woff2|ico)$/i,
\* compared after lower-casing
AssetExtensions ==
    {"png", "jpg", "jpeg", "gif", "svg", "css", "js", "ttf", "woff", "woff2", "ico"}

-----------------------------------------------------------------------------
(* Inputs *)

Procs == 1..MaxProcs

\* clients: an address (x-forwarded-for or the peer address, not validated)
\* and the session cookie the client presents
Clients == { [ip |-> "1.1.1.1", sid |-> "s1"], [ip |-> "2.2.2.2", sid |-> "s2"] }
ClientAddrs == {c.ip : c \in Clients}
Sessions == {c.sid : c \in Clients}
\* the instants the clock visits: the start, and the ms around one window later
Instants == {0, 1, Window - 1, Window, Window + 1}

\* address of the i-th earlier reporter found in reports.db at start
Earlier(i) == "10.0.0." \o ToString(i)
\* sizes of the ledger found in reports.db at start
LedgerSizes == {0, Threshold - 1, Threshold}

\* request lines the clients send: method, path as segments, extension of
\* the last segment (lower-cased), and the route it resolves to
Routes ==
    { [kind |-> "report",      segs |-> <<"report">>,                ext |-> ""],
      [kind |-> "status",      segs |-> <<"status">>,                ext |-> ""],
      [kind |-> "page",        segs |-> <<"index">>,                 ext |-> "html"],
      [kind |-> "asset",       segs |-> <<"logo">>,                  ext |-> "png"],
      [kind |-> "admin",       segs |-> <<"admin">>,                 ext |-> ""],
      [kind |-> "login",       segs |-> <<"admin", "login">>,        ext |-> ""],
      [kind |-> "logout",      segs |-> <<"admin", "logout">>,       ext |-> ""],
      [kind |-> "dashboard",   segs |-> <<"admin", "dashboard">>,    ext |-> ""],
      [kind |-> "set-status",  segs |-> <<"admin", "set-status">>,   ext |-> ""],
      [kind |-> "maintenance", segs |-> <<"admin", "maintenance">>,  ext |-> ""],
      [kind |-> "bl-add",      segs |-> <<"admin", "blacklist">>,    ext |-> ""],
      [kind |-> "bl-remove",   segs |-> <<"admin", "blacklist", ":ip">>, ext |-> ""] }

\* JSON values of a body field, written as text: the booleans, an absent field
\* (""), numbers, and strings in single quotes
JsonSamples == {"true", "false", "", "1", "0", "'false'"}

\* body / path parameters per route; "" stands for an absent field
Params(kind) ==
    CASE kind = "login" ->
            { [a |-> u, b |-> w] : u \in {"", ADMIN_USERNAME, "mallory"},
                                   w \in {"", ADMIN_PASSWORD, "guess"} }
      [] kind = "set-status" ->
            { [a |-> s, b |-> ""] : s \in {"up", "down", "auto", "sideways", ""} }
      [] kind = "maintenance" ->
            { [a |-> e, b |-> ""] : e \in JsonSamples }
      [] kind = "bl-add" ->
            { [a |-> i, b |-> r] : i \in ClientAddrs \cup {""}, r \in {"", "abuse"} }
      [] kind = "bl-remove" ->
            { [a |-> i, b |-> ""] : i \in ClientAddrs }
      [] OTHER -> { [a |-> "", b |-> ""] }

GuardedKinds == {"dashboard", "set-status", "maintenance", "bl-add", "bl-remove"}

-----------------------------------------------------------------------------
(* State *)

VARIABLES
    now,              \* Date.now()
    reports,          \* table reports: rows [ip, timestamp], id = position
    blacklisted_ips,  \* table blacklisted_ips: rows [ip, timestamp, reason]
    settings,         \* table settings: key -> value
    sessions,         \* session store: cookie -> isAdmin
    procs,            \* requests in flight
    sent,             \* the response sent by the latest step, with its request
    received,         \* number of requests received so far
    tables,           \* tables that exist in reports.db
    boot,             \* statements of the start-up block completed by this process
    running           \* the node process is running

vars ==
    <<now, reports, blacklisted_ips, settings, sessions, procs, sent, received,
      tables, boot, running>>

Idle ==
    [pc |-> "idle", kind |-> "", segs |-> <<>>, ext |-> "", ip |-> "", sid |-> "",
     isAdmin |-> FALSE, a |-> "", b |-> "", t |-> 0, got |-> <<>>]

NoResponse ==
    [kind |-> "", ip |-> "", sid |-> "", a |-> "", b |-> "", t |-> 0,
     code |-> 0, body |-> [none |-> TRUE]]


-----------------------------------------------------------------------------
(* Queries and pure helpers *)

\* variant, for comparison: req.path === '/admin'
IsAdminPath_Exact(segs) == segs = <<"admin">>

\* req.path.startsWith('/admin')
IsAdminPath(segs) == Len(segs) > 0 /\ segs[1] = "admin"

\* /\.(png|...|ico)$/i.test(req.path)
IsStaticAsset(ext) == ext \in AssetExtensions

\* variant, for comparison: maintenanceMode.value === true, which no stored
\* string satisfies
MaintenanceOn_Loose(st) == "maintenance_mode" \in DOMAIN st /\ st["maintenance_mode"] = ""

\* SELECT value FROM settings WHERE key = 'maintenance_mode', then
\* maintenanceMode && maintenanceMode.value === 'true'
MaintenanceOn(st) ==
    "maintenance_mode" \in DOMAIN st /\ st["maintenance_mode"] = "true"

\* variant, for comparison: only the first row of the table compared
IsBlacklisted_First(bl, ip) == Len(bl) > 0 /\ bl[1].ip = ip

\* SELECT 1 FROM blacklisted_ips WHERE ip = ?
IsBlacklisted(bl, ip) == \E i \in 1..Len(bl) : bl[i].ip = ip

\* variant, for comparison: the gate denying a blacklisted address on admin paths too
GateDenies_AdminToo(bl, ip, segs) == IsBlacklisted(bl, ip)

\* blacklisted && !req.path.startsWith('/admin')
GateDenies(bl, ip, segs) == IsBlacklisted(bl, ip) /\ ~IsAdminPath(segs)

\* variant, for comparison: the maintenance branch entered for assets too
GateChecksMaintenance_Assets(segs, ext) == ~IsAdminPath(segs)

\* the maintenance branch is entered for paths that are neither admin nor asset
GateChecksMaintenance(segs, ext) == ~IsAdminPath(segs) /\ ~IsStaticAsset(ext)

\* variant, for comparison: the window in seconds, not ms
Since_Seconds(t) == t - 24 * 60 * 60

\* now - 24 * 60 * 60 * 1000
Since(t) == t - Window

\* SELECT 1 FROM reports WHERE ip = ? AND timestamp > ? LIMIT 1
RecentReport(rows, ip, since) ==
    \E i \in 1..Len(rows) : rows[i].ip = ip /\ rows[i].timestamp > since

\* variant, for comparison: the newest row overwritten (an UPDATE for the INSERT)
InsertReport_Overwrite(rows, ip, t) ==
    IF rows = <<>>
    THEN Append(rows, [ip |-> ip, timestamp |-> t])
    ELSE [rows EXCEPT ![Len(rows)] = [ip |-> ip, timestamp |-> t]]

\* variant, for comparison: the insert refused when the address has a row
InsertReport_Once(rows, ip, t) ==
    IF \E i \in 1..Len(rows) : rows[i].ip = ip
    THEN rows ELSE Append(rows, [ip |-> ip, timestamp |-> t])

\* INSERT INTO reports (ip, timestamp) VALUES (?, ?)
InsertReport(rows, ip, t) == Append(rows, [ip |-> ip, timestamp |-> t])

\* SELECT * FROM reports WHERE timestamp > ?
InWindow(r, since) == r.timestamp > since
ReportsSince(rows, since) == SelectSeq(rows, LAMBDA r : InWindow(r, since))

\* variant, for comparison: the threshold exclusive
StatusOf_Above(count) == IF count > Threshold THEN StatusDown ELSE StatusUp

\* count >= 30 ? "Korone is probably down" : "Korone is up"
StatusOf(count) == IF count >= Threshold THEN StatusDown ELSE StatusUp

\* the forced branch: forceStatus && forceStatus.value !== 'auto'
IsForced(row) == row # "" /\ row # "auto"

\* variant, for comparison: the forced phrases the wrong way round
ForcedBody_Swapped(value) ==
    [status |-> IF value = "up" THEN StatusDown ELSE StatusUp,
     count |-> 0, reports |-> <<>>, forced |-> TRUE]

\* forceStatus.value === 'up' ? "Korone is up" : "Korone is probably down"
ForcedBody(value) ==
    [status |-> IF value = "up" THEN StatusUp ELSE StatusDown,
     count |-> 0, reports |-> <<>>, forced |-> TRUE]

\* { status, count, reports, forced: false }
AutoBody(rows) ==
    [status |-> StatusOf(Len(rows)), count |-> Len(rows), reports |-> rows,
     forced |-> FALSE]

\* SELECT value FROM settings WHERE key = ?  ("" when there is no row)
SettingRow(st, key) == IF key \in DOMAIN st THEN st[key] ELSE ""

\* UPDATE settings SET value = ? WHERE key = ?  (no row, no change)
UpdateSetting(st, key, value) ==
    IF key \in DOMAIN st THEN [st EXCEPT ![key] = value] ELSE st

\* variant, for comparison: requireAuth passing every session
RequireAuth_Session(isAdmin) == TRUE

\* req.session && req.session.isAdmin
RequireAuth(isAdmin) == isAdmin

\* !username || !password
MissingCredentials(u, w) == u = "" \/ w = ""

\* variant, for comparison: either credential enough
CredentialsOk_Either(u, w) == u = ADMIN_USERNAME \/ w = ADMIN_PASSWORD

\* username === ADMIN_USERNAME && password === ADMIN_PASSWORD
CredentialsOk(u, w) == u = ADMIN_USERNAME /\ w = ADMIN_PASSWORD

\* ['up', 'down', 'auto'].includes(status)
ValidStatus(s) == s \in {"up", "down", "auto"}

\* the values JavaScript coerces to false: undefined, false, 0, null, ""
Falsy == {"", "false", "0", "null", "''"}
Truthy(json) == json \notin Falsy

\* variant, for comparison: enabled === true
MaintenanceValue_Strict(enabled) == IF enabled = "true" THEN "true" ELSE "false"

\* enabled ? 'true' : 'false'
MaintenanceValue(enabled) == IF Truthy(enabled) THEN "true" ELSE "false"

\* variant, for comparison: the ip column without its UNIQUE constraint
UniqueViolation_None(bl, ip) == FALSE

\* ip TEXT UNIQUE: the constraint rejects a second row of an address
UniqueViolation(bl, ip) == IsBlacklisted(bl, ip)

\* INSERT INTO blacklisted_ips (ip, timestamp, reason), reason || 'No reason provided'
InsertBlacklist(bl, ip, t, reason) ==
    Append(bl, [ip |-> ip, timestamp |-> t,
                reason |-> IF reason = "" THEN DefaultReason ELSE reason])

\* variant, for comparison: the DELETE without its WHERE
DeleteBlacklist_All(bl, ip) == <<>>

\* DELETE FROM blacklisted_ips WHERE ip = ?
DeleteBlacklist(bl, ip) == SelectSeq(bl, LAMBDA e : e.ip # ip)

RemoveAt(s, m) == SubSeq(s, 1, m - 1) \o SubSeq(s, m + 1, Len(s))

\* SELECT * FROM blacklisted_ips ORDER BY timestamp DESC
\* (rows of equal timestamp in table order)
RECURSIVE SortByTimestampDesc(_)
SortByTimestampDesc(bl) ==
    IF bl = <<>> THEN <<>>
    ELSE LET m == CHOOSE i \in 1..Len(bl) :
                    /\ \A j \in 1..Len(bl) : bl[j].timestamp <= bl[i].timestamp
                    /\ \A j \in 1..(i - 1) : bl[j].timestamp < bl[i].timestamp
         IN <<bl[m]>> \o SortByTimestampDesc(RemoveAt(bl, m))

\* SELECT ip, COUNT(*) as count, MAX(timestamp) as last_report FROM reports
\* WHERE timestamp > ? GROUP BY ip
\* (MaxTimestamp_Min: variant, for comparison, MIN for MAX)
GroupIps(rows) == {rows[i].ip : i \in 1..Len(rows)}
RowsOf(rows, ip) == {i \in 1..Len(rows) : rows[i].ip = ip}
MaxTimestamp_Min(rows, idx) ==
    CHOOSE t \in {rows[i].timestamp : i \in idx} :
        \A i \in idx : rows[i].timestamp >= t
MaxTimestamp(rows, idx) ==
    CHOOSE t \in {rows[i].timestamp : i \in idx} :
        \A i \in idx : rows[i].timestamp <= t
GroupOf(rows, ip) ==
    [ip |-> ip, count |-> Cardinality(RowsOf(rows, ip)),
     last_report |-> MaxTimestamp(rows, RowsOf(rows, ip))]

\* ORDER BY count DESC (groups of equal count in order of first row)
FirstRow(rows, ip) == CHOOSE i \in RowsOf(rows, ip) : \A j \in RowsOf(rows, ip) : i <= j
RECURSIVE OrderByCountDesc(_, _)
OrderByCountDesc(rows, ips) ==
    IF ips = {} THEN <<>>
    ELSE LET top == CHOOSE x \in ips : \A y \in ips :
                        \/ Cardinality(RowsOf(rows, y)) < Cardinality(RowsOf(rows, x))
                        \/ /\ Cardinality(RowsOf(rows, y)) = Cardinality(RowsOf(rows, x))
                           /\ FirstRow(rows, x) <= FirstRow(rows, y)
         IN <<GroupOf(rows, top)>> \o OrderByCountDesc(rows, ips \ {top})
DashboardReports(rows, since) ==
    LET win == ReportsSince(rows, since)
    IN OrderByCountDesc(win, GroupIps(win))

-----------------------------------------------------------------------------
(* Start-up *)

\* rows left in reports.db by earlier requests: n distinct earlier reporters, the
\* first of them one ms before the others, the others at the first instant
Preload(n) ==
    [i \in 1..n |-> [ip |-> Earlier(i), timestamp |-> IF i = 1 THEN 0 - 1 ELSE 0]]

\* INSERT OR IGNORE INTO settings: the two seeded rows
DefaultSettings == [maintenance_mode |-> "false", force_status |-> "auto"]

\* the three tables of reports.db
AllTables == {"reports", "blacklisted_ips", "settings"}

\* the start-up block: its four statements in order, by the table each names
BootStatements == <<"reports", "blacklisted_ips", "settings", "seed">>
BootDone == Len(BootStatements)

\* the service is listening: tables created, settings seeded, a ledger of one
\* of `sizes` rows on disk, the sessions in `signedIn` established by a login
Start(sizes, signedIn) ==
    /\ now = 0
    /\ reports \in {Preload(n) : n \in sizes}
    /\ blacklisted_ips = <<>>
    /\ settings = DefaultSettings
    /\ sessions = [s \in Sessions |-> s \in signedIn]
    /\ procs = [p \in Procs |-> Idle]
    /\ sent = NoResponse
    /\ received = 0
    /\ tables = AllTables
    /\ boot = BootDone
    /\ running = TRUE

Init == Start(LedgerSizes, {})

-----------------------------------------------------------------------------
(* Plumbing of one request *)

pcOf(p) == procs[p].pc

\* a step that sends nothing
Quiet == sent' = NoResponse

Goto(p, pc) == procs' = [procs EXCEPT ![p].pc = pc]

\* res.json / res.sendFile / res.status(..).json: the request ends
Answer(p, code, body) ==
    /\ procs' = [procs EXCEPT ![p] = Idle]
    /\ sent' = [kind |-> procs[p].kind, ip |-> procs[p].ip, sid |-> procs[p].sid,
                a |-> procs[p].a, b |-> procs[p].b, t |-> procs[p].t,
                code |-> code, body |-> body]

Success == [success |-> TRUE]
Failure(msg) == [error |-> msg]

\* the table named by the statement a request awaits at each program point
TableOf(pc) ==
    CASE pc \in {"gate_maintenance", "dash_settings", "set_status_update",
                 "maintenance_update", "status_force"} -> "settings"
      [] pc \in {"gate_blacklist", "dash_blacklist", "blacklist_insert",
                 "blacklist_delete"} -> "blacklisted_ips"
      [] pc \in {"dash_reports", "report_select", "report_insert", "status_rows"}
            -> "reports"
      [] OTHER -> ""

\* request p awaits a statement
Awaits(p) == TableOf(pcOf(p)) # ""

\* the statement request p awaits can run: its table exists
Runs(p) == TableOf(pcOf(p)) \in tables

\* the lowest free slot takes the next request
FreeSlot(p) == pcOf(p) = "idle" /\ \A q \in Procs : q < p => pcOf(q) # "idle"

-----------------------------------------------------------------------------
(* Session middleware and access gate *)

\* A request arrives: the session middleware loads req.session for the cookie,
\* the gate tests the path and issues its first query
Arrive(p, kinds) ==
    /\ running
    /\ FreeSlot(p)
    /\ received < MaxRequests
    /\ received' = received + 1
    /\ \E r \in Routes, c \in Clients :
         /\ r.kind \in kinds
         /\ \E par \in Params(r.kind) :
              procs' = [procs EXCEPT ![p] =
                [pc |-> IF GateChecksMaintenance(r.segs, r.ext)
                        THEN "gate_maintenance" ELSE "gate_blacklist",
                 kind |-> r.kind, segs |-> r.segs, ext |-> r.ext,
                 ip |-> c.ip, sid |-> c.sid, isAdmin |-> sessions[c.sid],
                 a |-> par.a, b |-> par.b, t |-> 0, got |-> <<>>]]
    /\ Quiet
    /\ UNCHANGED <<now, reports, blacklisted_ips, settings, sessions, tables, boot, running>>

\* the maintenance query returns
GateMaintenance(p) ==
    /\ pcOf(p) = "gate_maintenance"
    /\ Runs(p)
    /\ IF MaintenanceOn(settings)
       THEN Answer(p, 200, [file |-> "maintenance.html"])
       ELSE Goto(p, "gate_blacklist") /\ Quiet
    /\ UNCHANGED <<now, reports, blacklisted_ips, settings, sessions, received,
                   tables, boot, running>>

\* the blacklist query returns
GateBlacklist(p) ==
    /\ pcOf(p) = "gate_blacklist"
    /\ Runs(p)
    /\ IF GateDenies(blacklisted_ips, procs[p].ip, procs[p].segs)
       THEN Answer(p, 403, Failure("Access denied"))
       ELSE Goto(p, "route") /\ Quiet
    /\ UNCHANGED <<now, reports, blacklisted_ips, settings, sessions, received,
                   tables, boot, running>>

-----------------------------------------------------------------------------
(* Static files and the admin page *)

\* express.static("public") serves the file of a non-route path
ServeStatic(p) ==
    /\ pcOf(p) = "route"
    /\ procs[p].kind \in {"page", "asset"}
    /\ Answer(p, 200, [file |-> procs[p].segs[1]])
    /\ UNCHANGED <<now, reports, blacklisted_ips, settings, sessions, received,
                   tables, boot, running>>

\* app.get('/admin')
AdminPage(p) ==
    /\ pcOf(p) = "route"
    /\ procs[p].kind = "admin"
    /\ Answer(p, 200, [file |-> "admin.html"])
    /\ UNCHANGED <<now, reports, blacklisted_ips, settings, sessions, received,
                   tables, boot, running>>

-----------------------------------------------------------------------------
(* Login, logout, requireAuth *)

LoginCode(u, w) ==
    IF MissingCredentials(u, w) THEN 400
    ELSE IF CredentialsOk(u, w) THEN 200 ELSE 401

LoginBody(u, w) ==
    IF MissingCredentials(u, w) THEN Failure("Username and password required")
    ELSE IF CredentialsOk(u, w) THEN Success ELSE Failure("Invalid credentials")

\* req.session.isAdmin = true
LoginMarks(u, w) == ~MissingCredentials(u, w) /\ CredentialsOk(u, w)

\* resave: false: as the response ends the session is written to the store
\* when the request has changed it
SaveSession(store, sid, loaded, marked) ==
    IF marked /\ ~loaded THEN [store EXCEPT ![sid] = TRUE] ELSE store

\* app.post('/admin/login')
Login(p) ==
    /\ pcOf(p) = "route"
    /\ procs[p].kind = "login"
    /\ sessions' = SaveSession(sessions, procs[p].sid, procs[p].isAdmin,
                               LoginMarks(procs[p].a, procs[p].b))
    /\ Answer(p, LoginCode(procs[p].a, procs[p].b), LoginBody(procs[p].a, procs[p].b))
    /\ UNCHANGED <<now, reports, blacklisted_ips, settings, received, tables, boot, running>>

\* req.session.destroy()
DestroySession(store, sid) == [store EXCEPT ![sid] = FALSE]

\* app.post('/admin/logout')
Logout(p) ==
    /\ pcOf(p) = "route"
    /\ procs[p].kind = "logout"
    /\ sessions' = DestroySession(sessions, procs[p].sid)
    /\ Answer(p, 200, Success)
    /\ UNCHANGED <<now, reports, blacklisted_ips, settings, received, tables, boot, running>>

\* cookie maxAge: the store drops a session that has expired
SessionExpire(s) ==
    /\ sessions[s]
    /\ sessions' = [sessions EXCEPT ![s] = FALSE]
    /\ Quiet
    /\ UNCHANGED <<now, reports, blacklisted_ips, settings, procs, received,
                   tables, boot, running>>

\* requireAuth answering 401 in front of a guarded route
RejectUnauthenticated(p) ==
    /\ pcOf(p) = "route"
    /\ procs[p].kind \in GuardedKinds
    /\ ~RequireAuth(procs[p].isAdmin)
    /\ Answer(p, 401, Failure("Authentication required"))
    /\ UNCHANGED <<now, reports, blacklisted_ips, settings, sessions, received,
                   tables, boot, running>>

\* requireAuth calling next() for route `kind`
Admitted(p, kind) ==
    /\ pcOf(p) = "route"
    /\ procs[p].kind = kind
    /\ RequireAuth(procs[p].isAdmin)

-----------------------------------------------------------------------------
(* Admin routes *)

\* app.get('/admin/dashboard'): since is computed, the grouped query issued
DashboardStart(p) ==
    /\ Admitted(p, "dashboard")
    /\ procs' = [procs EXCEPT ![p].pc = "dash_reports", ![p].t = now]
    /\ Quiet
    /\ UNCHANGED <<now, reports, blacklisted_ips, settings, sessions, received,
                   tables, boot, running>>

\* the grouped reports query returns
DashboardReportsQuery(p) ==
    /\ pcOf(p) = "dash_reports"
    /\ Runs(p)
    /\ procs' = [procs EXCEPT ![p].pc = "dash_blacklist",
                              ![p].got = <<DashboardReports(reports, Since(procs[p].t))>>]
    /\ Quiet
    /\ UNCHANGED <<now, reports, blacklisted_ips, settings, sessions, received,
                   tables, boot, running>>

\* the blacklist query returns
DashboardBlacklistQuery(p) ==
    /\ pcOf(p) = "dash_blacklist"
    /\ Runs(p)
    /\ procs' = [procs EXCEPT ![p].pc = "dash_settings",
                              ![p].got = Append(procs[p].got,
                                                SortByTimestampDesc(blacklisted_ips))]
    /\ Quiet
    /\ UNCHANGED <<now, reports, blacklisted_ips, settings, sessions, received,
                   tables, boot, running>>

\* the settings query returns and the dashboard is sent
DashboardSettingsQuery(p) ==
    /\ pcOf(p) = "dash_settings"
    /\ Runs(p)
    /\ Answer(p, 200, [reports |-> procs[p].got[1],
                       blacklistedIPs |-> procs[p].got[2],
                       settings |-> settings])
    /\ UNCHANGED <<now, reports, blacklisted_ips, settings, sessions, received,
                   tables, boot, running>>

\* app.post('/admin/set-status'): validation, then the UPDATE is issued
SetStatusStart(p) ==
    /\ Admitted(p, "set-status")
    /\ IF ValidStatus(procs[p].a)
       THEN Goto(p, "set_status_update") /\ Quiet
       ELSE Answer(p, 400, Failure("Invalid status. Must be up, down, or auto"))
    /\ UNCHANGED <<now, reports, blacklisted_ips, settings, sessions, received,
                   tables, boot, running>>

\* UPDATE settings SET value = ? WHERE key = 'force_status'
SetStatusUpdate(p) ==
    /\ pcOf(p) = "set_status_update"
    /\ Runs(p)
    /\ settings' = UpdateSetting(settings, "force_status", procs[p].a)
    /\ Answer(p, 200, Success)
    /\ UNCHANGED <<now, reports, blacklisted_ips, sessions, received, tables, boot, running>>

\* app.post('/admin/maintenance'): the UPDATE is issued
MaintenanceStart(p) ==
    /\ Admitted(p, "maintenance")
    /\ Goto(p, "maintenance_update")
    /\ Quiet
    /\ UNCHANGED <<now, reports, blacklisted_ips, settings, sessions, received,
                   tables, boot, running>>

\* UPDATE settings SET value = ? WHERE key = 'maintenance_mode'
MaintenanceUpdate(p) ==
    /\ pcOf(p) = "maintenance_update"
    /\ Runs(p)
    /\ settings' = UpdateSetting(settings, "maintenance_mode", MaintenanceValue(procs[p].a))
    /\ Answer(p, 200, Success)
    /\ UNCHANGED <<now, reports, blacklisted_ips, sessions, received, tables, boot, running>>

\* app.post('/admin/blacklist'): !ip gives 400, else the INSERT is issued with Date.now()
BlacklistAddStart(p) ==
    /\ Admitted(p, "bl-add")
    /\ IF procs[p].a = ""
       THEN Answer(p, 400, Failure("IP address required"))
       ELSE procs' = [procs EXCEPT ![p].pc = "blacklist_insert", ![p].t = now] /\ Quiet
    /\ UNCHANGED <<now, reports, blacklisted_ips, settings, sessions, received,
                   tables, boot, running>>

\* the INSERT runs: a row, or 'UNIQUE constraint failed' caught as 400
BlacklistInsert(p) ==
    /\ pcOf(p) = "blacklist_insert"
    /\ Runs(p)
    /\ IF UniqueViolation(blacklisted_ips, procs[p].a)
       THEN /\ Answer(p, 400, Failure("IP already blacklisted"))
            /\ UNCHANGED blacklisted_ips
       ELSE /\ blacklisted_ips' =
                 InsertBlacklist(blacklisted_ips, procs[p].a, procs[p].t, procs[p].b)
            /\ Answer(p, 200, Success)
    /\ UNCHANGED <<now, reports, settings, sessions, received, tables, boot, running>>

\* app.delete('/admin/blacklist/:ip'): the DELETE is issued
BlacklistRemoveStart(p) ==
    /\ Admitted(p, "bl-remove")
    /\ Goto(p, "blacklist_delete")
    /\ Quiet
    /\ UNCHANGED <<now, reports, blacklisted_ips, settings, sessions, received,
                   tables, boot, running>>

\* DELETE FROM blacklisted_ips WHERE ip = ?
BlacklistDelete(p) ==
    /\ pcOf(p) = "blacklist_delete"
    /\ Runs(p)
    /\ blacklisted_ips' = DeleteBlacklist(blacklisted_ips, procs[p].a)
    /\ Answer(p, 200, Success)
    /\ UNCHANGED <<now, reports, settings, sessions, received, tables, boot, running>>

-----------------------------------------------------------------------------
(* Public routes *)

\* app.post("/report"): now = Date.now(), the SELECT is issued
ReportStart(p) ==
    /\ pcOf(p) = "route"
    /\ procs[p].kind = "report"
    /\ procs' = [procs EXCEPT ![p].pc = "report_select", ![p].t = now]
    /\ Quiet
    /\ UNCHANGED <<now, reports, blacklisted_ips, settings, sessions, received,
                   tables, boot, running>>

\* the SELECT returns: 429 if a recent row exists, else the INSERT is issued
ReportSelect(p) ==
    /\ pcOf(p) = "report_select"
    /\ Runs(p)
    /\ IF RecentReport(reports, procs[p].ip, Since(procs[p].t))
       THEN Answer(p, 429, Failure(RateLimitMessage))
       ELSE Goto(p, "report_insert") /\ Quiet
    /\ UNCHANGED <<now, reports, blacklisted_ips, settings, sessions, received,
                   tables, boot, running>>

\* the INSERT runs and success is sent
ReportInsert(p) ==
    /\ pcOf(p) = "report_insert"
    /\ Runs(p)
    /\ reports' = InsertReport(reports, procs[p].ip, procs[p].t)
    /\ Answer(p, 200, Success)
    /\ UNCHANGED <<now, blacklisted_ips, settings, sessions, received, tables, boot, running>>

\* app.get("/status"): the force_status query is issued
StatusStart(p) ==
    /\ pcOf(p) = "route"
    /\ procs[p].kind = "status"
    /\ Goto(p, "status_force")
    /\ Quiet
    /\ UNCHANGED <<now, reports, blacklisted_ips, settings, sessions, received,
                   tables, boot, running>>

\* the force_status query returns: a forced status is answered at once
StatusForceQuery(p) ==
    /\ pcOf(p) = "status_force"
    /\ Runs(p)
    /\ IF IsForced(SettingRow(settings, "force_status"))
       THEN Answer(p, 200, ForcedBody(SettingRow(settings, "force_status")))
       ELSE Goto(p, "status_since") /\ Quiet
    /\ UNCHANGED <<now, reports, blacklisted_ips, settings, sessions, received,
                   tables, boot, running>>

\* auto: since = Date.now() - window, the window SELECT is issued
StatusSince(p) ==
    /\ pcOf(p) = "status_since"
    /\ procs' = [procs EXCEPT ![p].pc = "status_rows", ![p].t = now]
    /\ Quiet
    /\ UNCHANGED <<now, reports, blacklisted_ips, settings, sessions, received,
                   tables, boot, running>>

\* the window SELECT returns and the status is sent
StatusRows(p) ==
    /\ pcOf(p) = "status_rows"
    /\ Runs(p)
    /\ Answer(p, 200, AutoBody(ReportsSince(reports, Since(procs[p].t))))
    /\ UNCHANGED <<now, reports, blacklisted_ips, settings, sessions, received,
                   tables, boot, running>>

-----------------------------------------------------------------------------
(* Clock *)

Tick ==
    /\ \E x \in Instants : x > now /\ now' = x
    /\ Quiet
    /\ UNCHANGED <<reports, blacklisted_ips, settings, sessions, procs, received,
                   tables, boot, running>>

\* the clock moving on from the first instant by one ms
TickOnce ==
    /\ now = 0
    /\ now' = 1
    /\ Quiet
    /\ UNCHANGED <<reports, blacklisted_ips, settings, sessions, procs, received,
                   tables, boot, running>>

-----------------------------------------------------------------------------
(* The start-up block, running beside the requests the process already accepts *)

\* a settings table without rows
NoRows == [k \in {} |-> ""]

\* CREATE TABLE IF NOT EXISTS: an existing table is left as it is
CreateTableIfNotExists(tabs, name) == tabs \cup {name}

\* variant, for comparison: the seeding as INSERT OR REPLACE
SeedSettings_Replace(st) ==
    [k \in DOMAIN st \cup DOMAIN DefaultSettings |->
        IF k \in DOMAIN DefaultSettings THEN DefaultSettings[k] ELSE st[k]]

\* INSERT OR IGNORE INTO settings: a row whose key exists is left as it is
SeedSettings(st) ==
    [k \in DOMAIN st \cup DOMAIN DefaultSettings |->
        IF k \in DOMAIN st THEN st[k] ELSE DefaultSettings[k]]

\* one of the three CREATE TABLE statements completes
BootCreateTable ==
    /\ running
    /\ boot < BootDone - 1
    /\ tables' = CreateTableIfNotExists(tables, BootStatements[boot + 1])
    /\ boot' = boot + 1
    /\ Quiet
    /\ UNCHANGED <<now, reports, blacklisted_ips, settings, sessions, procs, received,
                   running>>

\* the seeding statement completes
BootSeed ==
    /\ running
    /\ boot = BootDone - 1
    /\ "settings" \in tables
    /\ settings' = SeedSettings(settings)
    /\ boot' = BootDone
    /\ Quiet
    /\ UNCHANGED <<now, reports, blacklisted_ips, sessions, procs, received, tables,
                   running>>

\* the process is started on the reports.db left on disk: nothing in flight, an
\* empty session store, the start-up block at its first statement
StartProcess ==
    /\ boot' = 0
    /\ running' = TRUE
    /\ procs' = [p \in Procs |-> Idle]
    /\ sessions' = [s \in Sessions |-> FALSE]
    /\ Quiet
    /\ UNCHANGED <<now, reports, blacklisted_ips, settings, received, tables>>

-----------------------------------------------------------------------------
(* Failing statements *)

\* what becomes of a promise rejected inside an async handler or middleware that
\* has no try/catch: the router forwards it to the default error handler
\* (express 5), or nobody handles it and the request is never answered
\* (express 4), where node either only warns or, by default since node 15, exits
UnhandledOutcomes == {"error_handler", "unanswered", "exit"}

\* the statement awaited by request p is one inside try/catch
Caught(pc) == pc = "blacklist_insert"

\* the INSERT of blacklist add fails with an error other than the UNIQUE one:
\* the catch answers 500 "Database error"
CaughtFailure(p, unexpected) ==
    /\ Awaits(p)
    /\ unexpected \/ ~Runs(p)
    /\ Caught(pcOf(p))
    /\ Answer(p, 500, Failure("Database error"))
    /\ UNCHANGED <<now, reports, blacklisted_ips, settings, sessions, received,
                   tables, boot, running>>

\* any other awaited statement fails: the rejection leaves the handler
UnhandledRejection(p, unexpected, outcome) ==
    /\ Awaits(p)
    /\ unexpected \/ ~Runs(p)
    /\ ~Caught(pcOf(p))
    /\ CASE outcome = "error_handler" ->
              /\ Answer(p, 500, [html |-> "Internal Server Error"])
              /\ UNCHANGED <<sessions, running>>
         [] outcome = "unanswered" ->
              /\ Goto(p, "unanswered")
              /\ Quiet
              /\ UNCHANGED <<sessions, running>>
         [] outcome = "exit" ->
              /\ running' = FALSE
              /\ procs' = [q \in Procs |-> Idle]
              /\ sessions' = [s \in Sessions |-> FALSE]
              /\ Quiet
    /\ UNCHANGED <<now, reports, blacklisted_ips, settings, received, tables, boot>>

-----------------------------------------------------------------------------
(* Specifications: the service under one workload each *)

\* POST /report and GET /status from every client, with the clock running
PublicKinds == {"report", "status"}

NextPublic ==
    \/ \E p \in Procs : Arrive(p, PublicKinds)
    \/ \E p \in Procs : GateMaintenance(p)
    \/ \E p \in Procs : GateBlacklist(p)
    \/ \E p \in Procs : ReportStart(p)
    \/ \E p \in Procs : ReportSelect(p)
    \/ \E p \in Procs : ReportInsert(p)
    \/ \E p \in Procs : StatusStart(p)
    \/ \E p \in Procs : StatusForceQuery(p)
    \/ \E p \in Procs : StatusSince(p)
    \/ \E p \in Procs : StatusRows(p)
    \/ Tick

SpecPublic == Init /\ [][NextPublic]_vars

\* the operator (the first client) has logged in
OperatorSid == "s1"
InitSignedIn == Start(LedgerSizes, {OperatorSid})

\* the operator forcing the status while clients report and read the status
OverrideKinds == {"set-status", "status", "report"}

NextOverride ==
    \/ \E p \in Procs : Arrive(p, OverrideKinds)
    \/ \E p \in Procs : GateMaintenance(p)
    \/ \E p \in Procs : GateBlacklist(p)
    \/ \E p \in Procs : RejectUnauthenticated(p)
    \/ \E p \in Procs : SetStatusStart(p)
    \/ \E p \in Procs : SetStatusUpdate(p)
    \/ \E p \in Procs : ReportStart(p)
    \/ \E p \in Procs : ReportSelect(p)
    \/ \E p \in Procs : ReportInsert(p)
    \/ \E p \in Procs : StatusStart(p)
    \/ \E p \in Procs : StatusForceQuery(p)
    \/ \E p \in Procs : StatusSince(p)
    \/ \E p \in Procs : StatusRows(p)

SpecOverride == InitSignedIn /\ [][NextOverride]_vars

\* the operator blacklisting addresses and switching maintenance while clients
\* request public pages, assets, routes and admin paths
GateKinds ==
    {"bl-add", "bl-remove", "maintenance", "report", "status", "page", "asset",
     "admin", "login"}

NextGate ==
    \/ \E p \in Procs : Arrive(p, GateKinds)
    \/ \E p \in Procs : GateMaintenance(p)
    \/ \E p \in Procs : GateBlacklist(p)
    \/ \E p \in Procs : ServeStatic(p)
    \/ \E p \in Procs : AdminPage(p)
    \/ \E p \in Procs : Login(p)
    \/ \E p \in Procs : RejectUnauthenticated(p)
    \/ \E p \in Procs : MaintenanceStart(p)
    \/ \E p \in Procs : MaintenanceUpdate(p)
    \/ \E p \in Procs : BlacklistAddStart(p)
    \/ \E p \in Procs : BlacklistInsert(p)
    \/ \E p \in Procs : BlacklistRemoveStart(p)
    \/ \E p \in Procs : BlacklistDelete(p)
    \/ \E p \in Procs : ReportStart(p)
    \/ \E p \in Procs : ReportSelect(p)
    \/ \E p \in Procs : ReportInsert(p)
    \/ \E p \in Procs : StatusStart(p)
    \/ \E p \in Procs : StatusForceQuery(p)
    \/ \E p \in Procs : StatusSince(p)
    \/ \E p \in Procs : StatusRows(p)

InitGate == Start({SmallLedger}, {OperatorSid})

SpecGate == InitGate /\ [][NextGate]_vars

\* the operator adding to and removing from the blacklist, with the clock running
BlacklistKinds == {"bl-add", "bl-remove"}

NextBlacklist ==
    \/ \E p \in Procs : Arrive(p, BlacklistKinds)
    \/ \E p \in Procs : GateBlacklist(p)
    \/ \E p \in Procs : RejectUnauthenticated(p)
    \/ \E p \in Procs : BlacklistAddStart(p)
    \/ \E p \in Procs : BlacklistInsert(p)
    \/ \E p \in Procs : BlacklistRemoveStart(p)
    \/ \E p \in Procs : BlacklistDelete(p)
    \/ Tick

SpecBlacklist == InitGate /\ [][NextBlacklist]_vars

\* the admin surface from start-up: login, logout and every guarded route
AdminKinds ==
    {"login", "logout", "dashboard", "set-status", "maintenance", "bl-add", "bl-remove"}

NextAdmin ==
    \/ \E p \in Procs : Arrive(p, AdminKinds)
    \/ \E p \in Procs : GateBlacklist(p)
    \/ \E p \in Procs : Login(p)
    \/ \E p \in Procs : Logout(p)
    \/ \E s \in Sessions : SessionExpire(s)
    \/ \E p \in Procs : RejectUnauthenticated(p)
    \/ \E p \in Procs : DashboardStart(p)
    \/ \E p \in Procs : DashboardReportsQuery(p)
    \/ \E p \in Procs : DashboardBlacklistQuery(p)
    \/ \E p \in Procs : DashboardSettingsQuery(p)
    \/ \E p \in Procs : SetStatusStart(p)
    \/ \E p \in Procs : SetStatusUpdate(p)
    \/ \E p \in Procs : MaintenanceStart(p)
    \/ \E p \in Procs : MaintenanceUpdate(p)
    \/ \E p \in Procs : BlacklistAddStart(p)
    \/ \E p \in Procs : BlacklistInsert(p)
    \/ \E p \in Procs : BlacklistRemoveStart(p)
    \/ \E p \in Procs : BlacklistDelete(p)

InitAdmin == Start({SmallLedger}, {})

SpecAdmin == InitAdmin /\ [][NextAdmin]_vars

\* what the process may find on disk when it starts: no reports.db yet, or the
\* reports.db of earlier runs, with a ledger, a blacklist entry and settings the
\* operator had changed
FreshDisk ==
    [tables |-> {}, reports |-> <<>>, blacklisted_ips |-> <<>>, settings |-> NoRows]
UsedDisk ==
    [tables |-> AllTables, reports |-> Preload(SmallLedger),
     blacklisted_ips |-> <<[ip |-> "2.2.2.2", timestamp |-> 0 - 1, reason |-> DefaultReason]>>,
     settings |-> [maintenance_mode |-> "true", force_status |-> "down"]]
Disks == {FreshDisk, UsedDisk}

\* node starts: app.listen and the start-up block are both under way
InitBoot ==
    /\ now = 0
    /\ \E d \in Disks :
          /\ tables = d.tables
          /\ reports = d.reports
          /\ blacklisted_ips = d.blacklisted_ips
          /\ settings = d.settings
    /\ sessions = [s \in Sessions |-> FALSE]
    /\ procs = [p \in Procs |-> Idle]
    /\ sent = NoResponse
    /\ received = 0
    /\ boot = 0
    /\ running = TRUE

\* the operator logging in and changing the settings from the moment the process
\* listens, the start-up block running beside; a statement on a table that does
\* not exist yet fails
BootKinds == {"login", "set-status", "maintenance"}

NextBoot ==
    \/ BootCreateTable
    \/ BootSeed
    \/ StartProcess
    \/ \E p \in Procs : Arrive(p, BootKinds)
    \/ \E p \in Procs : GateBlacklist(p)
    \/ \E p \in Procs : Login(p)
    \/ \E p \in Procs : RejectUnauthenticated(p)
    \/ \E p \in Procs : SetStatusStart(p)
    \/ \E p \in Procs : SetStatusUpdate(p)
    \/ \E p \in Procs : MaintenanceStart(p)
    \/ \E p \in Procs : MaintenanceUpdate(p)
    \/ \E p \in Procs, o \in UnhandledOutcomes : UnhandledRejection(p, FALSE, o)

SpecBoot == InitBoot /\ [][NextBoot]_vars

\* clients reporting and reading the status and the operator blacklisting, with
\* statements of the store failing at any time
FaultyKinds == {"report", "status", "bl-add"}

NextFaulty ==
    \/ \E p \in Procs : Arrive(p, FaultyKinds)
    \/ \E p \in Procs : GateMaintenance(p)
    \/ \E p \in Procs : GateBlacklist(p)
    \/ \E p \in Procs : RejectUnauthenticated(p)
    \/ \E p \in Procs : BlacklistAddStart(p)
    \/ \E p \in Procs : BlacklistInsert(p)
    \/ \E p \in Procs : ReportStart(p)
    \/ \E p \in Procs : ReportSelect(p)
    \/ \E p \in Procs : ReportInsert(p)
    \/ \E p \in Procs : StatusStart(p)
    \/ \E p \in Procs : StatusForceQuery(p)
    \/ \E p \in Procs : StatusSince(p)
    \/ \E p \in Procs : StatusRows(p)
    \/ \E p \in Procs : CaughtFailure(p, TRUE)
    \/ \E p \in Procs, o \in UnhandledOutcomes : UnhandledRejection(p, TRUE, o)

SpecFaulty == InitGate /\ [][NextFaulty]_vars

\* every route of the service, the operator logged in, the clock moving
ServiceKinds == {r.kind : r \in Routes}

NextService ==
    \/ \E p \in Procs : Arrive(p, ServiceKinds)
    \/ \E p \in Procs : GateMaintenance(p)
    \/ \E p \in Procs : GateBlacklist(p)
    \/ \E p \in Procs : ServeStatic(p)
    \/ \E p \in Procs : AdminPage(p)
    \/ \E p \in Procs : Login(p)
    \/ \E p \in Procs : Logout(p)
    \/ \E p \in Procs : RejectUnauthenticated(p)
    \/ \E p \in Procs : DashboardStart(p)
    \/ \E p \in Procs : DashboardReportsQuery(p)
    \/ \E p \in Procs : DashboardBlacklistQuery(p)
    \/ \E p \in Procs : DashboardSettingsQuery(p)
    \/ \E p \in Procs : SetStatusStart(p)
    \/ \E p \in Procs : SetStatusUpdate(p)
    \/ \E p \in Procs : MaintenanceStart(p)
    \/ \E p \in Procs : MaintenanceUpdate(p)
    \/ \E p \in Procs : BlacklistAddStart(p)
    \/ \E p \in Procs : BlacklistInsert(p)
    \/ \E p \in Procs : BlacklistRemoveStart(p)
    \/ \E p \in Procs : BlacklistDelete(p)
    \/ \E p \in Procs : ReportStart(p)
    \/ \E p \in Procs : ReportSelect(p)
    \/ \E p \in Procs : ReportInsert(p)
    \/ \E p \in Procs : StatusStart(p)
    \/ \E p \in Procs : StatusForceQuery(p)
    \/ \E p \in Procs : StatusSince(p)
    \/ \E p \in Procs : StatusRows(p)
    \/ TickOnce

SpecService == InitGate /\ [][NextService]_vars

\* the operator reading the dashboard while clients report, the clock running
DashboardKinds == {"dashboard", "report"}

NextDashboard ==
    \/ \E p \in Procs : Arrive(p, DashboardKinds)
    \/ \E p \in Procs : GateMaintenance(p)
    \/ \E p \in Procs : GateBlacklist(p)
    \/ \E p \in Procs : RejectUnauthenticated(p)
    \/ \E p \in Procs : DashboardStart(p)
    \/ \E p \in Procs : DashboardReportsQuery(p)
    \/ \E p \in Procs : DashboardBlacklistQuery(p)
    \/ \E p \in Procs : DashboardSettingsQuery(p)
    \/ \E p \in Procs : ReportStart(p)
    \/ \E p \in Procs : ReportSelect(p)
    \/ \E p \in Procs : ReportInsert(p)
    \/ Tick

SpecDashboard == InitGate /\ [][NextDashboard]_vars

-----------------------------------------------------------------------------
(* Properties of POST /report and GET /status *)

\* request p takes its step out of program point pc
Takes(p, pc) == pcOf(p) = pc /\ procs'[p] # procs[p]

\* the response of request p, as sent by the step
SentTo(p, code, body) ==
    /\ sent'.kind = procs[p].kind /\ sent'.ip = procs[p].ip /\ sent'.sid = procs[p].sid
    /\ sent'.code = code /\ sent'.body = body

\* rows of the ledger reported by `ip`, and the latest of their timestamps
LedgerRowsOf(ip) == {i \in 1..Len(reports) : reports[i].ip = ip}
LatestAccepted(ip) ==
    CHOOSE t \in {reports[i].timestamp : i \in LedgerRowsOf(ip)} :
        \A i \in LedgerRowsOf(ip) : reports[i].timestamp <= t

\* C1: once a /report from A has been accepted at T (the latest row of A in the
\* ledger), a /report from A whose time n lies strictly between T and T + 86400000
\* is answered 429 with the rate-limit message and writes nothing, and one whose
\* time is T + 86400000 + 1 is accepted: its row {A, n} is appended and it is
\* answered {success: true}.
C1_RateLimitWindow ==
    [][\A p \in Procs :
        /\ (Takes(p, "report_select") /\ LedgerRowsOf(procs[p].ip) # {}) =>
              LET T == LatestAccepted(procs[p].ip)
                  n == procs[p].t
              IN /\ (T < n /\ n < T + 86400000) =>
                        /\ SentTo(p, 429, [error |-> "You can only report once every 24 hours."])
                        /\ reports' = reports
                        /\ procs'[p].pc = "idle"
                 /\ (n = T + 86400000 + 1) =>
                        /\ procs'[p].pc = "report_insert"
                        /\ procs'[p].t = n /\ procs'[p].ip = procs[p].ip
                        /\ sent' = NoResponse
        /\ Takes(p, "report_insert") =>
              /\ reports' = Append(reports, [ip |-> procs[p].ip, timestamp |-> procs[p].t])
              /\ SentTo(p, 200, [success |-> TRUE])
      ]_vars

\* a /report of A at T + 86400000 - 1 has just been answered 429
C1_Witness ==
    /\ sent.kind = "report" /\ sent.code = 429
    /\ \E i \in 1..Len(reports) :
          /\ reports[i].ip = sent.ip
          /\ reports[i].timestamp = LatestAccepted(sent.ip)
          /\ sent.t = reports[i].timestamp + 86400000 - 1

\* C2: no two rows of the ledger with the same address have timestamps less than
\* 86400000 ms apart.
C2_OnePerWindow ==
    \A i, j \in 1..Len(reports) :
        (i < j /\ reports[i].ip = reports[j].ip) =>
            \/ reports[j].timestamp - reports[i].timestamp >= 86400000
            \/ reports[i].timestamp - reports[j].timestamp >= 86400000

\* rows of the ledger newer than `since`
NewerThan(since) == {i \in 1..Len(reports) : reports[i].timestamp > since}

\* C3: with force_status "auto", /status goes on to the window query and answers
\* count = number of rows with timestamp > now - 86400000, reports = exactly those
\* rows, forced = false, and "probably down" iff count >= 30.
C3_AutoStatus ==
    [][\A p \in Procs :
        /\ (Takes(p, "status_force") /\ settings["force_status"] = "auto") =>
              /\ procs'[p].pc = "status_since" /\ sent' = NoResponse
        /\ Takes(p, "status_since") =>
              /\ procs'[p].pc = "status_rows" /\ procs'[p].t = now /\ sent' = NoResponse
        /\ Takes(p, "status_rows") =>
              LET win == NewerThan(procs[p].t - 86400000)
                  body == sent'.body
              IN /\ sent'.kind = "status" /\ sent'.code = 200
                 /\ body.count = Cardinality(win)
                 /\ Len(body.reports) = Cardinality(win)
                 /\ \A i \in 1..Len(reports) :
                       Cardinality({k \in 1..Len(body.reports) : body.reports[k] = reports[i]})
                         = Cardinality({j \in win : reports[j] = reports[i]})
                 /\ body.forced = FALSE
                 /\ body.status = IF Cardinality(win) >= 30
                                  THEN "Korone is probably down" ELSE "Korone is up"
                 /\ (Cardinality(win) = 29 => body.status = "Korone is up")
      ]_vars

\* /status has just answered "probably down" for exactly 30 rows in the window,
\* with an older row left out
C3_Witness ==
    /\ sent.kind = "status" /\ sent.code = 200
    /\ sent.body.forced = FALSE
    /\ sent.body.count = 30
    /\ sent.body.status = "Korone is probably down"
    /\ Len(reports) > 30

-----------------------------------------------------------------------------
(* Properties of the forced status *)

\* C4: whenever the force_status read by /status is "up" or "down", the answer is
\* forced = true, count = 0, reports empty and the up phrase for "up", the down
\* phrase for "down", whatever the ledger holds.
C4_ForcedStatus ==
    [][\A p \in Procs :
        (Takes(p, "status_force") /\ settings["force_status"] \in {"up", "down"}) =>
            /\ SentTo(p, 200,
                      [status |-> IF settings["force_status"] = "up"
                                  THEN "Korone is up" ELSE "Korone is probably down",
                       count |-> 0, reports |-> <<>>, forced |-> TRUE])
            /\ procs'[p].pc = "idle"
      ]_vars

\* /status has just answered the forced "up" over a ledger of 30 or more recent rows
C4_Witness ==
    /\ sent.kind = "status" /\ sent.code = 200
    /\ sent.body = [status |-> "Korone is up", count |-> 0, reports |-> <<>>,
                    forced |-> TRUE]
    /\ settings["force_status"] = "up"
    /\ Cardinality(NewerThan(now - 86400000)) >= 30

-----------------------------------------------------------------------------
(* Properties of the access gate *)

\* routes under /admin, routes that are static assets, and the rest
AdminPathKinds ==
    {"admin", "login", "logout", "dashboard", "set-status", "maintenance",
     "bl-add", "bl-remove"}
AssetPathKinds == {"asset"}
GatedKinds == {"report", "status", "page"}

InBlacklist(ip) == \E i \in 1..Len(blacklisted_ips) : blacklisted_ips[i].ip = ip

InGate(p) == pcOf(p) \in {"gate_maintenance", "gate_blacklist"} /\ procs'[p] # procs[p]

AccessDenied == [error |-> "Access denied"]
MaintenancePage == [file |-> "maintenance.html"]

C6_Maintenance ==
    [][\A p \in Procs :
        /\ (Takes(p, "gate_maintenance") /\ settings["maintenance_mode"] = "true") =>
              /\ SentTo(p, 200, MaintenancePage)
              /\ procs'[p].pc = "idle"
              /\ UNCHANGED <<reports, blacklisted_ips, settings, sessions>>
        /\ (pcOf(p) = "idle" /\ procs'[p].pc # "idle") =>
              /\ procs'[p].kind \in GatedKinds => procs'[p].pc = "gate_maintenance"
              /\ procs'[p].kind \notin GatedKinds => procs'[p].pc = "gate_blacklist"
        /\ pcOf(p) = "gate_maintenance" => procs[p].kind \in GatedKinds
        /\ (procs'[p] # procs[p] /\ procs[p].kind \notin GatedKinds /\ procs'[p].pc = "idle")
              => sent'.body # MaintenancePage
      ]_vars

\* under maintenance a page request has just been answered with the maintenance
\* page while an asset request is past the gate
C6_Witness ==
    /\ settings["maintenance_mode"] = "true"
    /\ sent.kind = "page" /\ sent.code = 200 /\ sent.body = MaintenancePage
    /\ \E q \in Procs : procs[q].kind = "asset" /\ pcOf(q) = "route"

-----------------------------------------------------------------------------
(* Properties of the admin session *)

GuardedRoutes == {"dashboard", "set-status", "maintenance", "bl-add", "bl-remove"}

AuthRequired == [error |-> "Authentication required"]

\* C7: a request to a guarded admin route (dashboard, set-status, maintenance,
\* blacklist add, blacklist remove) whose session is not authenticated changes
\* neither settings, blacklist nor ledger in any of its steps, and is answered
\* 401 "Authentication required".
C7_Unauthenticated401 ==
    [][\A p \in Procs :
        (procs'[p] # procs[p] /\ procs[p].kind \in GuardedRoutes /\ ~procs[p].isAdmin) =>
            /\ UNCHANGED <<settings, blacklisted_ips, reports>>
            /\ procs'[p].pc \in {"gate_blacklist", "route", "idle"}
            /\ pcOf(p) = "route" => procs'[p].pc = "idle"
            /\ procs'[p].pc = "idle" => SentTo(p, 401, AuthRequired)
      ]_vars

\* a set-status without session has just been answered 401 and force_status is
\* not the value it asked for
C7_Witness ==
    /\ sent.kind = "set-status" /\ sent.code = 401 /\ sent.body = AuthRequired
    /\ sent.a = "down"
    /\ settings["force_status"] = "auto"
    /\ ~sessions[sent.sid]

\* C8: a session becomes authenticated only in the step of a login whose username
\* and password both equal the configured credentials; a login with a missing
\* field is answered 400 and one with wrong credentials 401, and neither changes
\* any session; logout is answered success and leaves its session unauthenticated;
\* a request loads the marker of its session on arrival, so a guarded request
\* arriving while the session is unauthenticated is answered 401.
C8_SessionMarker ==
    [][/\ \A s \in Sessions :
            (~sessions[s] /\ sessions'[s]) =>
                \E p \in Procs :
                    /\ Takes(p, "route") /\ procs[p].kind = "login" /\ procs[p].sid = s
                    /\ procs[p].a = "admin" /\ procs[p].b = "secret"
                    /\ SentTo(p, 200, [success |-> TRUE])
       /\ \A p \in Procs :
            /\ (Takes(p, "route") /\ procs[p].kind = "login") =>
                  /\ (procs[p].a = "" \/ procs[p].b = "") =>
                        /\ SentTo(p, 400, [error |-> "Username and password required"])
                        /\ sessions' = sessions
                  /\ (procs[p].a # "" /\ procs[p].b # ""
                        /\ ~(procs[p].a = "admin" /\ procs[p].b = "secret")) =>
                        /\ SentTo(p, 401, [error |-> "Invalid credentials"])
                        /\ sessions' = sessions
                  /\ (procs[p].a = "admin" /\ procs[p].b = "secret") =>
                        SentTo(p, 200, [success |-> TRUE])
            /\ (Takes(p, "route") /\ procs[p].kind = "logout") =>
                  /\ SentTo(p, 200, [success |-> TRUE])
                  /\ ~sessions'[procs[p].sid]
                  /\ \A s \in Sessions \ {procs[p].sid} : sessions'[s] = sessions[s]
            /\ (pcOf(p) = "idle" /\ procs'[p].pc # "idle") =>
                  procs'[p].isAdmin = sessions[procs'[p].sid]
            /\ (Takes(p, "route") /\ procs[p].kind \in GuardedRoutes /\ ~procs[p].isAdmin) =>
                  SentTo(p, 401, AuthRequired)
      ]_vars

\* a logout has just been answered: the session, which a request still in flight
\* had found authenticated, is unauthenticated
C8_Witness ==
    /\ sent.kind = "logout" /\ sent.code = 200 /\ sent.body = [success |-> TRUE]
    /\ ~sessions[sent.sid]
    /\ \E q \in Procs : procs[q].sid = sent.sid /\ procs[q].isAdmin

-----------------------------------------------------------------------------
(* Properties of the blacklist *)

\* number of entries of blacklist bl equal to e
Copies(bl, e) == Cardinality({k \in 1..Len(bl) : bl[k] = e})

\* C9: the blacklist never holds two entries with the same address, also with two
\* adds of one address in flight at once; an add of an address that is present is
\* answered 400 "IP already blacklisted" and leaves the blacklist as it is.
C9_BlacklistUnique ==
    [][/\ \A i, j \in 1..Len(blacklisted_ips) :
            blacklisted_ips[i].ip = blacklisted_ips[j].ip => i = j
       /\ \A i, j \in 1..Len(blacklisted_ips') :
            blacklisted_ips'[i].ip = blacklisted_ips'[j].ip => i = j
       /\ \A p \in Procs :
            (Takes(p, "blacklist_insert") /\ InBlacklist(procs[p].a)) =>
                /\ SentTo(p, 400, [error |-> "IP already blacklisted"])
                /\ blacklisted_ips' = blacklisted_ips
      ]_vars

\* an add has just been answered 400 and the entry of that address still carries
\* the reason and the earlier timestamp it was created with
C9_Witness ==
    /\ sent.kind = "bl-add" /\ sent.code = 400
    /\ sent.body = [error |-> "IP already blacklisted"]
    /\ sent.b = ""
    /\ \E i \in 1..Len(blacklisted_ips) :
          /\ blacklisted_ips[i].ip = sent.a
          /\ blacklisted_ips[i].reason = "abuse"
          /\ blacklisted_ips[i].timestamp < sent.t

\* C10: a blacklist remove is answered success whether or not the address is
\* present; afterwards the address is absent and every other entry is as before;
\* a remove of an absent address changes nothing, so a second identical remove
\* leaves the state as the first did.
C10_RemoveIdempotent ==
    [][\A p \in Procs :
        Takes(p, "blacklist_delete") =>
            /\ SentTo(p, 200, [success |-> TRUE])
            /\ \A k \in 1..Len(blacklisted_ips') : blacklisted_ips'[k].ip # procs[p].a
            /\ \A i \in 1..Len(blacklisted_ips) :
                  blacklisted_ips[i].ip # procs[p].a =>
                      Copies(blacklisted_ips', blacklisted_ips[i])
                        = Copies(blacklisted_ips, blacklisted_ips[i])
            /\ Len(blacklisted_ips') =
                  Cardinality({i \in 1..Len(blacklisted_ips) :
                                  blacklisted_ips[i].ip # procs[p].a})
            /\ ~InBlacklist(procs[p].a) => blacklisted_ips' = blacklisted_ips
            /\ DeleteBlacklist(blacklisted_ips', procs[p].a) = blacklisted_ips'
            /\ UNCHANGED <<reports, settings, sessions>>
      ]_vars

\* a remove of an address that is not blacklisted has just been answered success
\* and the entry of the other address is still there
C10_Witness ==
    /\ sent.kind = "bl-remove" /\ sent.code = 200 /\ sent.body = [success |-> TRUE]
    /\ ~InBlacklist(sent.a)
    /\ \E i \in 1..Len(blacklisted_ips) : blacklisted_ips[i].ip # sent.a


-----------------------------------------------------------------------------
(* Properties of concurrent requests *)

\* the ledger holds a row of `ip` newer than `since`
HasRowSince(ip, since) ==
    \E i \in 1..Len(reports) : reports[i].ip = ip /\ reports[i].timestamp > since

\* C15: the "no recent report" query of /report sees only rows already inserted:
\* with a /report of the same address waiting at its INSERT, a second one passes
\* the query too; each INSERT then appends its row and is answered success,
\* whatever the ledger holds by then, so the ledger ends with two rows of that
\* address inside one window of 86400000 ms.
C15_CheckThenInsertRace ==
    [][\A p, q \in Procs :
        (p # q /\ procs[q].kind = "report" /\ pcOf(q) = "report_insert"
              /\ procs[p].kind = "report" /\ procs[p].ip = procs[q].ip) =>
            /\ (Takes(p, "report_select")
                  /\ ~HasRowSince(procs[p].ip, procs[p].t - 86400000)) =>
                  /\ procs'[p].pc = "report_insert"
                  /\ procs'[q] = procs[q]
                  /\ reports' = reports
            /\ Takes(p, "report_insert") =>
                  /\ reports' = Append(reports, [ip |-> procs[p].ip, timestamp |-> procs[p].t])
                  /\ SentTo(p, 200, [success |-> TRUE])
                  /\ procs'[q] = procs[q]
            /\ (Takes(q, "report_insert")
                  /\ HasRowSince(procs[q].ip, procs[q].t - 86400000)) =>
                  /\ reports' = Append(reports, [ip |-> procs[q].ip, timestamp |-> procs[q].t])
                  /\ SentTo(q, 200, [success |-> TRUE])
      ]_vars

\* the second of two overlapping reports of one address has just been answered
\* success and the ledger holds two rows of the address less than a window apart
C15_Witness ==
    /\ sent.kind = "report" /\ sent.code = 200 /\ sent.body = [success |-> TRUE]
    /\ \E i, j \in 1..Len(reports) :
          /\ i < j
          /\ reports[i].ip = sent.ip /\ reports[j].ip = sent.ip
          /\ reports[j].timestamp = sent.t
          /\ reports[j].timestamp - reports[i].timestamp < 86400000
          /\ reports[i].timestamp - reports[j].timestamp < 86400000

\* the steps by which a /report request moves on: arrival, the two gate queries,
\* the handler's query, the insert
ReportPath(p) ==
    /\ (pcOf(p) = "idle" /\ procs'[p].pc # "idle") => procs'[p].pc = "gate_maintenance"
    /\ (pcOf(p) # "gate_blacklist" /\ procs'[p].pc = "gate_blacklist") =>
            pcOf(p) = "gate_maintenance"
    /\ (pcOf(p) # "route" /\ procs'[p].pc = "route") => pcOf(p) = "gate_blacklist"
    /\ (pcOf(p) # "report_select" /\ procs'[p].pc = "report_select") => pcOf(p) = "route"
    /\ (pcOf(p) # "report_insert" /\ procs'[p].pc = "report_insert") =>
            pcOf(p) = "report_select"

\* C19 as stated: no row is inserted at a moment when maintenance_mode is "true".
C19_NoInsertUnderMaintenance ==
    [][reports' # reports => settings["maintenance_mode"] # "true"]_vars

\* C19, amended: a /report whose maintenance query at the gate reads "true" is
\* answered the maintenance page and inserts nothing; a row is inserted only by a
\* /report that went through that query and read another value there, whatever
\* maintenance_mode is at the moment of the insert.
C19_NoInsertAfterMaintenanceRead ==
    [][/\ \A p \in Procs :
            /\ (Takes(p, "gate_maintenance") /\ procs[p].kind = "report"
                  /\ settings["maintenance_mode"] = "true") =>
                  /\ SentTo(p, 200, MaintenancePage)
                  /\ procs'[p].pc = "idle"
                  /\ reports' = reports
            /\ (Takes(p, "gate_maintenance") /\ procs'[p].pc # "idle") =>
                  settings["maintenance_mode"] # "true"
            /\ (procs'[p] # procs[p] /\ procs'[p].kind = "report") => ReportPath(p)
       /\ reports' # reports =>
            \E p \in Procs :
                /\ Takes(p, "report_insert") /\ procs[p].kind = "report"
                /\ reports' = Append(reports, [ip |-> procs[p].ip, timestamp |-> procs[p].t])
      ]_vars

\* a /report has just inserted its row and been answered success with
\* maintenance_mode "true": the toggle came after the request's gate
C19_Witness ==
    /\ settings["maintenance_mode"] = "true"
    /\ sent.kind = "report" /\ sent.code = 200 /\ sent.body = [success |-> TRUE]
    /\ \E i \in 1..Len(reports) : reports[i] = [ip |-> sent.ip, timestamp |-> sent.t]

\* C20 as stated: no row is inserted for an address at a moment when the address
\* is in the blacklist.
C20_NoInsertWhileBlacklisted ==
    [][\A i \in 1..Len(reports') :
          i > Len(reports) => ~InBlacklist(reports'[i].ip)]_vars

\* C20, amended: a /report whose blacklist query at the gate finds its address is
\* answered 403 and inserts nothing; a row is inserted only by a /report that
\* went through that query and found no entry of its address there, whether or
\* not the address is in the blacklist at the moment of the insert.
C20_NoInsertAfterBlacklistRead ==
    [][/\ \A p \in Procs :
            /\ (Takes(p, "gate_blacklist") /\ procs[p].kind = "report"
                  /\ InBlacklist(procs[p].ip)) =>
                  /\ SentTo(p, 403, AccessDenied)
                  /\ procs'[p].pc = "idle"
                  /\ reports' = reports
            /\ (Takes(p, "gate_blacklist") /\ procs[p].kind = "report"
                  /\ procs'[p].pc # "idle") =>
                  /\ ~InBlacklist(procs[p].ip)
                  /\ procs'[p].ip = procs[p].ip
            /\ (procs'[p] # procs[p] /\ procs'[p].kind = "report") =>
                  /\ ReportPath(p)
                  /\ pcOf(p) # "idle" => procs'[p].pc = "idle" \/ procs'[p].ip = procs[p].ip
       /\ reports' # reports =>
            \E p \in Procs :
                /\ Takes(p, "report_insert") /\ procs[p].kind = "report"
                /\ reports' = Append(reports, [ip |-> procs[p].ip, timestamp |-> procs[p].t])
      ]_vars

\* a /report has just inserted its row and been answered success while its
\* address is in the blacklist: the add came after the request's gate
C20_Witness ==
    /\ InBlacklist(sent.ip)
    /\ sent.kind = "report" /\ sent.code = 200 /\ sent.body = [success |-> TRUE]
    /\ \E i \in 1..Len(reports) : reports[i] = [ip |-> sent.ip, timestamp |-> sent.t]

\* C17: the ledger changes only in the INSERT step of an accepted /report, which
\* appends the one row {address, the time the handler read at its start} and is
\* answered success; in every other step (a /report answered 429, status,
\* dashboard, login, logout, set-status, maintenance, blacklist add and remove,
\* static files) every row stays where and as it was and none is added.
C17_LedgerAppendOnly ==
    [][/\ Len(reports') >= Len(reports)
       /\ \A i \in 1..Len(reports) : reports'[i] = reports[i]
       /\ reports' # reports =>
            \E p \in Procs :
                /\ Takes(p, "report_insert") /\ procs[p].kind = "report"
                /\ reports' = Append(reports, [ip |-> procs[p].ip, timestamp |-> procs[p].t])
                /\ SentTo(p, 200, [success |-> TRUE])
       /\ \A p \in Procs :
            /\ (procs'[p] # procs[p] /\ procs[p].kind # "report" /\ pcOf(p) # "idle"
                  /\ \A q \in Procs \ {p} : procs'[q] = procs[q]) =>
                  reports' = reports
            /\ (Takes(p, "route") /\ procs[p].kind = "report") =>
                  /\ procs'[p].t = now
                  /\ reports' = reports
            /\ (Takes(p, "report_select") /\ procs'[p].pc = "idle") =>
                  /\ sent'.code = 429
                  /\ reports' = reports
      ]_vars

\* a /report has just been answered 429 one ms after the accepted report of the
\* same address, whose row is the last of the ledger
C17_Witness ==
    /\ sent.kind = "report" /\ sent.code = 429 /\ sent.t = 1
    /\ Len(reports) = SmallLedger + 1
    /\ reports[Len(reports)] = [ip |-> sent.ip, timestamp |-> 0]

-----------------------------------------------------------------------------
(* Properties of the dashboard *)

\* addresses with a row in the set `win` of ledger positions, and the positions
\* of one address
AddrsIn(win) == {reports[i].ip : i \in win}
RowsIn(win, ip) == {i \in win : reports[i].ip = ip}

RECURSIVE SumOfCounts(_)
SumOfCounts(groups) ==
    IF groups = <<>> THEN 0 ELSE groups[1].count + SumOfCounts(Tail(groups))

\* C18: the grouped query of the dashboard returns, over the rows with
\* timestamp > now - 86400000 (now read by the handler), exactly one entry per
\* address with a row there, its count the number of those rows and its
\* last_report the largest of their timestamps, the entries in order of count
\* descending; the counts add up to the number of rows in the window, which is
\* the count /status answers in auto mode for the same ledger and time; the
\* response carries that result, and no step of the dashboard changes the
\* ledger, the blacklist, the settings or the sessions.
C18_DashboardGroups ==
    [][\A p \in Procs :
        /\ (Takes(p, "route") /\ procs[p].kind = "dashboard" /\ procs'[p].pc # "idle") =>
              procs'[p].t = now
        /\ Takes(p, "dash_reports") =>
              LET win == NewerThan(procs[p].t - 86400000)
                  g == procs'[p].got[1]
              IN /\ Len(g) = Cardinality(AddrsIn(win))
                 /\ \A ip \in AddrsIn(win) :
                       \E k \in 1..Len(g) :
                           /\ g[k].ip = ip
                           /\ g[k].count = Cardinality(RowsIn(win, ip))
                           /\ \A i \in RowsIn(win, ip) : reports[i].timestamp <= g[k].last_report
                           /\ \E i \in RowsIn(win, ip) : reports[i].timestamp = g[k].last_report
                           /\ \A l \in 1..Len(g) : g[l].ip = ip => l = k
                 /\ \A k, l \in 1..Len(g) : k < l => g[k].count >= g[l].count
                 /\ SumOfCounts(g) = Cardinality(win)
        /\ Takes(p, "dash_settings") =>
              /\ sent'.kind = "dashboard" /\ sent'.code = 200
              /\ sent'.body.reports = procs[p].got[1]
        /\ (procs'[p] # procs[p] /\ procs[p].kind = "dashboard" /\ pcOf(p) # "idle") =>
              UNCHANGED <<reports, blacklisted_ips, settings, sessions, tables>>
      ]_vars

\* the dashboard has just answered: two rows of one address, of times 0 and 1,
\* as one entry of count 2 and last_report 1, in front of an entry of count 1,
\* and the row older than the window left out
C18_Witness ==
    /\ sent.kind = "dashboard" /\ sent.code = 200
    /\ Len(reports) = SmallLedger + 2
    /\ Len(sent.body.reports) = 2
    /\ sent.body.reports[1].count = 2
    /\ sent.body.reports[1].last_report = 1
    /\ sent.body.reports[2].count = 1

-----------------------------------------------------------------------------
(* Properties of the settings and of start-up *)

\* request p takes its step out of program point pc and is still served: the
\* process was neither stopped nor started in the step
Steps(p, pc) ==
    /\ pcOf(p) = pc
    /\ procs'[p] # procs[p]
    /\ procs'[p].pc = "idle" => sent' # NoResponse

\* C11: an authenticated set-status whose status is none of "up", "down", "auto" is
\* answered 400 and leaves the settings as they are; one whose status is among
\* them is, once answered success, followed by a force_status row that exists and
\* holds the submitted value, whether or not the row existed before.
C11_SetStatusUpserts ==
    [][\A p \in Procs :
        /\ (Steps(p, "route") /\ procs[p].kind = "set-status" /\ procs[p].isAdmin
              /\ procs[p].a \notin {"up", "down", "auto"}) =>
              /\ SentTo(p, 400, [error |-> "Invalid status. Must be up, down, or auto"])
              /\ settings' = settings
        /\ (Steps(p, "set_status_update") /\ SentTo(p, 200, [success |-> TRUE])) =>
              /\ procs[p].a \in {"up", "down", "auto"}
              /\ "force_status" \in DOMAIN settings'
              /\ settings'["force_status"] = procs[p].a
      ]_vars

\* C12: once the start-up block has completed, and through every admin action
\* after it, the settings hold a row for maintenance_mode with value "true" or
\* "false" and a row for force_status with value "up", "down" or "auto" (one row
\* per key: key is the primary key); a maintenance toggle then writes "true" for
\* a truthy `enabled` (true, 1, a non-empty string) and "false" for a falsy or
\* absent one (false, 0, no field).
C12_SettingsRows ==
    [][/\ boot' = 4 =>
            /\ {"maintenance_mode", "force_status"} \subseteq DOMAIN settings'
            /\ settings'["maintenance_mode"] \in {"true", "false"}
            /\ settings'["force_status"] \in {"up", "down", "auto"}
       /\ \A p \in Procs :
            (Steps(p, "maintenance_update") /\ boot = 4) =>
                /\ SentTo(p, 200, [success |-> TRUE])
                /\ procs[p].a \in {"true", "1", "'false'"} =>
                      settings'["maintenance_mode"] = "true"
                /\ procs[p].a \in {"false", "0", ""} =>
                      settings'["maintenance_mode"] = "false"
                /\ settings'["force_status"] = settings["force_status"]
      ]_vars

\* after start-up on a new reports.db a toggle with the string 'false', which is
\* truthy, has just been answered and maintenance_mode is "true"
C12_Witness ==
    /\ boot = 4
    /\ sent.kind = "maintenance" /\ sent.code = 200 /\ sent.a = "'false'"
    /\ settings = [maintenance_mode |-> "true", force_status |-> "auto"]

\* C14: a statement of the start-up block leaves every row of the ledger, every
\* blacklist entry and every settings row that exists as it is (a value the
\* operator has set is not put back to its default) and drops no table; on a
\* store that already holds the three tables and both settings it changes
\* nothing, which is the state every completed start-up leaves, so a second run
\* gives the state of the first.
C14_StartupIdempotent ==
    [][/\ boot' > boot =>
            /\ reports' = reports
            /\ blacklisted_ips' = blacklisted_ips
            /\ tables \subseteq tables'
            /\ \A k \in DOMAIN settings :
                  k \in DOMAIN settings' /\ settings'[k] = settings[k]
            /\ ({"reports", "blacklisted_ips", "settings"} \subseteq tables
                  /\ {"maintenance_mode", "force_status"} \subseteq DOMAIN settings) =>
                  /\ tables' = tables
                  /\ settings' = settings
       /\ boot = 4 =>
            /\ {"reports", "blacklisted_ips", "settings"} \subseteq tables
            /\ {"maintenance_mode", "force_status"} \subseteq DOMAIN settings
      ]_vars

\* the process has been started again and its start-up block has completed: the
\* session store is empty, and force_status still holds the "up" the operator set
\* in the earlier run
C14_Witness ==
    /\ running /\ boot = 4
    /\ \A s \in Sessions : ~sessions[s]
    /\ settings["force_status"] = "up"

-----------------------------------------------------------------------------
(* Properties of failing statements *)

\* program points at which a request awaits a statement of the store
AwaitPoints ==
    {"gate_maintenance", "gate_blacklist", "report_select", "report_insert",
     "status_force", "status_rows", "dash_reports", "dash_blacklist", "dash_settings",
     "set_status_update", "maintenance_update", "blacklist_insert", "blacklist_delete"}

\* the step in which the statement awaited by request p fails: the request is
\* answered 500, or left without answer, or the process stops
FailsAt(p) ==
    /\ pcOf(p) \in AwaitPoints
    /\ procs'[p] # procs[p]
    /\ \/ procs'[p].pc = "unanswered"
       \/ ~running'
       \/ procs'[p].pc = "idle" /\ sent'.code = 500

\* C13: whenever a statement of the store fails inside a request (in the access
\* gate, /report, /status or an admin handler), that request is answered with
\* status 500 and ends, and the process goes on accepting requests.
C13_FailureAnswered500 ==
    [][\A p \in Procs :
        FailsAt(p) =>
            /\ sent'.code = 500
            /\ sent'.kind = procs[p].kind /\ sent'.ip = procs[p].ip
            /\ procs'[p].pc = "idle"
            /\ running'
      ]_vars

=============================================================================
